---- MODULE Spec2Model ----
(***************************************************************************)
(* Model of the media-hub-setup remote provisioning tool.                  *)
(*                                                                         *)
(*   - the HTTP server (server/index.js): the session registry             *)
(*     activeConnections, the SSE endpoints and the one-click              *)
(*     download-and-run pipeline;                                          *)
(*   - SSHService (ssh-service.js): connect with bounded retries and the   *)
(*     command execution wrappers;                                         *)
(*   - the standalone SSH provisioning script: retry, reconnectIfNeeded    *)
(*     and connectToRaspberryPi.                                           *)
(*                                                                         *)
(* The remote host and the node-ssh transport are the environment: every   *)
(* transport connect and every command draws its outcome from a small set. *)
(***************************************************************************)
EXTENDS Integers, Sequences, FiniteSets, TLC

\* ------------------------------------------------------------------ bounds
MaxHosts == 2
\* standalone script: deepest nesting of retry frames that is explored
MaxDepth == 6
\* standalone script: most transport connect attempts that are explored
MaxConnects == 9

\* ------------------------------------------------------- program constants
\* default of the `retries` parameter of SSHService.connect
ConnectRetries == 3
\* standalone script: default of the `retries` parameter of retry
RETRY_LIMIT == 5

VARIABLES
  activeConnections,  \* server: set of keys that have an SSHService in the registry
  sshConnected,       \* per key: the service's NodeSSH handle reports isConnected()
  connections,        \* per key: the service's own `connections` map holds the key
  endpoint,           \* request in progress: which route is being handled
  reqKey,             \* request in progress: its (ip, username) key
  reqBody,            \* request in progress: the body it was sent with
  pc,                 \* request in progress: position of the handler
  attempts,           \* SSHService.connect: the local `attempts` counter
  httpStatus,         \* 0 while no status was chosen, else 200 / 400 / 500
  events,             \* the SSE records written to the response, in order
  closed,             \* res.end() has been called on the stream
  issued,             \* commands handed to the session, in order
  results,            \* outcomes of the completed commands, in order
  call,               \* script: the outermost retry call, [fn, retries]
  stack,              \* script: the active retry calls, outermost first
  scriptConnected,    \* script: ssh.isConnected() of the module-level handle
  opCalls,            \* script: invocations of fn by the outermost retry
  hookCalls,          \* script: reconnectIfNeeded calls by the outermost retry
  connectCalls,       \* script: ssh.connect calls
  anyConnectOk,       \* script: some ssh.connect call has succeeded
  outcome,            \* script: how the outermost retry ended
  lastExec,           \* script: last command result seen by execCommandWithRetries
  trace,              \* script: what the outermost retry call has done, in order
  registry,           \* concurrent server: activeConnections, key -> SSHService identity
  nextObj,            \* concurrent server: identity of the next `new SSHService()`
  objConnected,       \* concurrent server: this.ssh.isConnected() of each SSHService
  objStored,          \* concurrent server: connections.has(key) of each SSHService
  procs,              \* concurrent server: the request handlers in flight
  served,             \* concurrent server: number of requests accepted so far
  main,               \* standalone scripts: the run of the top-level async function
  runs,               \* concurrent pipelines: the download-and-run requests in flight
  linkUp,             \* concurrent pipelines: per key, the shared session is connected
  svcConnected,       \* one SSHService: isConnected() of its NodeSSH handle
  svcStored,          \* one SSHService: the keys of its `connections` map
  svcOp               \* one SSHService: the method call in progress / just ended

serverVars == <<activeConnections, sshConnected, connections, endpoint, reqKey, reqBody, pc,
                attempts, httpStatus, events, closed, issued, results>>
scriptVars == <<call, stack, scriptConnected, opCalls, hookCalls, connectCalls,
                anyConnectOk, outcome, lastExec, trace>>
svcVars == <<svcConnected, svcStored, svcOp>>
regVars == <<registry, nextObj, objConnected, objStored, procs, served>>
mainVars == <<main>>
pipeVars == <<runs, linkUp>>
nonServerVars == <<scriptVars, svcVars, regVars, mainVars, pipeVars>>
nonScriptVars == <<serverVars, svcVars, regVars, mainVars, pipeVars>>
nonSvcVars == <<serverVars, scriptVars, regVars, mainVars, pipeVars>>
nonRegVars == <<serverVars, scriptVars, svcVars, mainVars, pipeVars>>
nonMainVars == <<serverVars, scriptVars, svcVars, regVars, pipeVars>>
nonPipeVars == <<serverVars, scriptVars, svcVars, regVars, mainVars>>
vars == <<activeConnections, sshConnected, connections, endpoint, reqKey, reqBody, pc,
          attempts, httpStatus, events, closed, issued, results,
          call, stack, scriptConnected, opCalls, hookCalls, connectCalls,
          anyConnectOk, outcome, lastExec, trace, svcConnected, svcStored, svcOp,
          registry, nextObj, objConnected, objStored, procs, served, main,
          runs, linkUp>>

\* ------------------------------------------------------------ input domains
Hosts == 1..MaxHosts
NoKey == <<0, "">>
Keys == {<<h, "root">> : h \in Hosts}

\* request bodies: ip 0, username "" and password "" stand for a missing field
Bodies == [ip : Hosts \cup {0}, username : {"", "root"}, password : {"", "pw"},
           extra : BOOLEAN]

\* no request is being handled
NoBody == [ip |-> 0, username |-> "", password |-> "", extra |-> FALSE]

StreamEndpoints == {"download-and-run", "download-branch", "download-file",
                    "extract", "execute-stream"}

\* ---------------------------------------------------------- command results
\* stdout is a sequence of tokens; "\n" and " " are whitespace
Whitespace == {"\n", " "}
RejectMsg == "Not connected to server"

Rejected == [rejected |-> TRUE, code |-> -1, stdout |-> <<>>, stderr |-> ""]
Exit(c, out, err) == [rejected |-> FALSE, code |-> c, stdout |-> out, stderr |-> err]

\* outcomes of a command whose output is forwarded (download, tar, npm, node)
StreamOutcomes == {Rejected,
                   Exit(0, <<>>, ""),
                   Exit(0, <<"out">>, "warn"),
                   Exit(1, <<>>, "failed")}
\* outcomes of `which <tool>`
ProbeOutcomes == {Rejected,
                  Exit(0, <<"/usr/bin/tool", "\n">>, ""),
                  Exit(0, <<"\n">>, ""),
                  Exit(1, <<>>, "")}
\* outcomes of `test -f <path> && echo "exists"`
CheckOutcomes == {Rejected,
                  Exit(0, <<"exists", "\n">>, ""),
                  Exit(1, <<>>, "")}
\* outcomes of a command whose result the caller does not read
PlainOutcomes == {Rejected, Exit(0, <<>>, ""), Exit(1, <<>>, "failed")}

\* node-ssh refuses a command on a handle that is not connected
Outcomes(k, set) == IF sshConnected[k] THEN set ELSE {Rejected}

\* String.prototype.trim on the token sequence
RECURSIVE TrimLeft(_)
TrimLeft(s) == IF s # <<>> /\ Head(s) \in Whitespace THEN TrimLeft(Tail(s)) ELSE s
RECURSIVE TrimRight(_)
TrimRight(s) == IF s # <<>> /\ s[Len(s)] \in Whitespace
                THEN TrimRight(SubSeq(s, 1, Len(s) - 1)) ELSE s
Trim(s) == TrimRight(TrimLeft(s))

\* String.prototype.includes
Includes(s, tok) == \E i \in DOMAIN s : s[i] = tok

\* ------------------------------------------------------------ github-service
generateMkdirCommand == "mkdir -p"
generateCurlCommand == "curl -L"
generateWgetCommand == "wget -O"
generateDownloadCommand(tool) ==
  IF tool = "curl" THEN generateCurlCommand
  ELSE IF tool = "wget" THEN generateWgetCommand
  ELSE generateWgetCommand
generateExtractCommand == "tar -xzf"

WhichCurl == "which curl"
WhichWget == "which wget"
TestArchive == "test -f repo.tar.gz"
TestPackageJson == "test -f package.json"
InstallCmd == "npm install"
RunCmd == "node hub-setup.js"
UserCmd == "user command"

\* ------------------------------------------------------------- SSE records
Ev(t, s, x) == [type |-> t, step |-> s, text |-> x]
StepEv(n, m) == Ev("step", n, m)
InfoEv(m) == Ev("info", 0, m)
SuccessEv(m) == Ev("success", 0, m)
ErrorEv(m) == Ev("error", 0, m)
DoneEv == Ev("done", 0, "Command completed")
ConnectedEv == Ev("connected", 0, "Connected to hub")

\* variant: standard-error output is reported as an error record
Chunks_stderrIsError(r) ==
  (IF r.stdout # <<>> THEN <<Ev("stdout", 0, "chunk")>> ELSE <<>>)
  \o (IF r.stderr # "" THEN <<ErrorEv(r.stderr)>> ELSE <<>>)
\* onStdout / onStderr of executeCommandWithStream
Chunks(r) ==
  (IF r.stdout # <<>> THEN <<Ev("stdout", 0, "chunk")>> ELSE <<>>)
  \o (IF r.stderr # "" THEN <<Ev("stderr", 0, r.stderr)>> ELSE <<>>)

NoToolMsg == "Neither curl nor wget is available on the hub. Please install one of them."
NoArchiveMsg == "Download failed - archive file not found after download"
NoFileMsg == "Download failed - file not found after download"


\* ------------------------------------------------------------------ helpers
Last(s) == s[Len(s)]
InFlight == Len(issued) > Len(results)

\* the handler writes `evs`, hands `cmd` to the session and awaits it
Continue(evs, cmd, next) ==
  /\ events' = events \o evs
  /\ issued' = Append(issued, [cmd |-> cmd, at |-> Len(events) + Len(evs)])
  /\ pc' = next
  /\ closed' = closed

\* the handler writes `evs` and calls res.end()
Finish(evs) ==
  /\ events' = events \o evs
  /\ closed' = TRUE
  /\ pc' = "done"
  /\ issued' = issued

\* variant: the handler goes on without the command's result
Complete_unawaited(r) == results' = results
\* the awaited command settles with outcome r
Complete(r) == results' = Append(results, r)

\* variant: the catch block ends the response without writing the error
CatchWrite_silent(msg) == <<>>
\* inner catch of the streaming handlers: one error record
CatchWrite(msg) == <<ErrorEv(msg)>>
\* variant: the failed command is issued again
Catch_retry(msg) ==
  /\ events' = events
  /\ issued' = Append(issued, [cmd |-> Last(issued).cmd, at |-> Len(events)])
  /\ pc' = pc
  /\ closed' = closed
\* the inner catch block: write the error and end the response
Catch(msg) == Finish(CatchWrite(msg))

\* `x.catch(() => ({ stdout: '' }))` around an existence check
CheckFallback(r) == IF r.rejected THEN [stdout |-> <<>>] ELSE [stdout |-> r.stdout]
\* variant: any check that settled counts as "file present"
ArchiveFound_settled(r) == ~r.rejected
ArchiveFound(r) == Includes(CheckFallback(r).stdout, "exists")
\* variant: any check that settled counts as "manifest present"
HasPackageJson_settled(r) == ~r.rejected
HasPackageJson(r) == Includes(CheckFallback(r).stdout, "exists")

\* variant: the probe's output is not looked at
ToolFound_anyOutput(r) == ~r.rejected /\ r.code = 0
\* detectDownloadTool: `check && check.code === 0 && check.stdout.trim()`
ToolFound(r) == ~r.rejected /\ r.code = 0 /\ Trim(r.stdout) # <<>>

UsingMsg(tool) == IF tool = "curl" THEN "Using curl for download..."
                  ELSE "Using wget for download..."

\* --------------------------------------------------------------------- Init
InitServer ==
  /\ activeConnections = {}
  /\ sshConnected = [k \in Keys |-> FALSE]
  /\ connections = [k \in Keys |-> FALSE]
  /\ endpoint = "none"
  /\ reqKey = NoKey
  /\ reqBody = NoBody
  /\ pc = "idle"
  /\ attempts = 0
  /\ httpStatus = 0
  /\ events = <<>>
  /\ closed = FALSE
  /\ issued = <<>>
  /\ results = <<>>

\* execCommandWithRetries has not run a command yet
NoExec == [seen |-> FALSE, rejected |-> FALSE, code |-> 0, stderr |-> "", threw |-> FALSE]

\* the standalone script is not running
InitScriptIdle ==
  /\ call = [fn |-> "none", retries |-> 0]
  /\ stack = <<>>
  /\ scriptConnected = FALSE
  /\ opCalls = 0
  /\ hookCalls = 0
  /\ connectCalls = 0
  /\ anyConnectOk = FALSE
  /\ outcome = [kind |-> "none", error |-> "none"]
  /\ lastExec = NoExec
  /\ trace = <<>>

\* no SSHService method is being called
NoCall == [op |-> "none", key |-> NoKey, retries |-> 0, attempts |-> 0,
           pc |-> "idle", disposed |-> 0, transport |-> 0, threw |-> FALSE,
           pre |-> [connected |-> FALSE, stored |-> {}]]
InitSvc ==
  /\ svcConnected = FALSE
  /\ svcStored = {}
  /\ svcOp = NoCall

\* bounds of the concurrent server
MaxProcs == 2
MaxObjs == 2
MaxRequests == 3
Procs == 1..MaxProcs
Objs == 1..MaxObjs
NoObj == 0

\* a handler slot with no request in it
IdleProc == [kind |-> "none", key |-> NoKey, pc |-> "idle", svc |-> NoObj,
             found |-> "none", attempts |-> 0, transport |-> 0, status |-> 0]

\* `const activeConnections = new Map()`, no SSHService constructed yet
InitReg ==
  /\ registry = [k \in Keys |-> NoObj]
  /\ nextObj = 1
  /\ objConnected = [o \in Objs |-> FALSE]
  /\ objStored = [o \in Objs |-> FALSE]
  /\ procs = [p \in Procs |-> IdleProc]
  /\ served = 0

\* no standalone script has been started
NoMain == [script |-> "none", step |-> 0, ran |-> 0, end |-> "none",
           caught |-> FALSE, disposed |-> FALSE, exit |-> -1]
InitMainIdle == main = NoMain

\* bound of the concurrent pipelines
MaxRuns == 2
Runs == 1..MaxRuns
\* a request slot before its request arrives
NoRun == [key |-> NoKey, pc |-> "idle", status |-> 0, settled |-> 0, events |-> <<>>]
InitPipes ==
  /\ runs = [r \in Runs |-> NoRun]
  /\ linkUp = [k \in Keys |-> FALSE]

Init == InitServer /\ InitScriptIdle /\ InitSvc /\ InitReg /\ InitMainIdle /\ InitPipes

\* ------------------------------------------------------- request validation
NeedsExtra(e) == e \in {"execute-stream", "download-file", "extract"}
\* variant: the password is not required
ValidBody_noPassword(e, b) ==
  /\ b.ip # 0 /\ b.username # ""
  /\ (NeedsExtra(e) => b.extra)
\* `if (!ip || !username || !password ...)` of the handlers
ValidBody(e, b) ==
  /\ b.ip # 0 /\ b.username # "" /\ b.password # ""
  /\ (NeedsExtra(e) => b.extra)
KeyOf(b) == <<b.ip, b.username>>

\* first write(s) and first command of each streaming handler
FirstEvents(e) ==
  CASE e = "download-and-run" -> <<StepEv(1, "Creating directory...")>>
    [] e = "download-branch" -> <<InfoEv("Creating directory...")>>
    [] e = "download-file" -> <<>>
    [] e = "extract" -> <<InfoEv("Extracting archive...")>>
    [] e = "execute-stream" -> <<ConnectedEv>>
FirstCmd(e) ==
  CASE e = "download-and-run" -> generateMkdirCommand
    [] e = "download-branch" -> generateMkdirCommand
    [] e = "download-file" -> WhichCurl
    [] e = "extract" -> generateExtractCommand
    [] e = "execute-stream" -> UserCmd
FirstPc(e) ==
  CASE e = "download-and-run" -> "mkdir"
    [] e = "download-branch" -> "mkdir"
    [] e = "download-file" -> "curl"
    [] e = "extract" -> "extract"
    [] e = "execute-stream" -> "exec"

\* SSE headers are set and the inner try block is entered
OpenStream(e) ==
  /\ httpStatus' = 200
  /\ Continue(FirstEvents(e), FirstCmd(e), FirstPc(e))

\* a request arrives: validation, getSSHService, isConnected
Request(e, b) ==
  /\ pc = "idle"
  /\ UNCHANGED nonServerVars
  /\ endpoint' = e
  /\ reqBody' = b
  /\ attempts' = 0
  /\ results' = results
  /\ IF ~ValidBody(e, b)
     THEN /\ httpStatus' = 400
          /\ pc' = "done"
          /\ reqKey' = NoKey
          /\ UNCHANGED <<activeConnections, sshConnected, connections,
                         events, closed, issued>>
     ELSE /\ reqKey' = KeyOf(b)
          /\ activeConnections' = activeConnections \cup {KeyOf(b)}
          /\ UNCHANGED <<sshConnected, connections>>
          /\ IF sshConnected[KeyOf(b)]
             THEN OpenStream(e)
             ELSE /\ pc' = "connect"
                  /\ UNCHANGED <<httpStatus, events, closed, issued>>

\* SSHService.connect: one pass of the retry loop around ssh.connect
ConnectAttempt(ok) ==
  /\ pc = "connect"
  /\ UNCHANGED nonServerVars
  /\ UNCHANGED <<activeConnections, endpoint, reqKey, reqBody, results>>
  /\ IF ok
     THEN /\ sshConnected' = [sshConnected EXCEPT ![reqKey] = TRUE]
          /\ connections' = [connections EXCEPT ![reqKey] = TRUE]
          /\ attempts' = attempts
          /\ OpenStream(endpoint)
     ELSE /\ attempts' = attempts + 1
          /\ UNCHANGED <<sshConnected, connections, events, closed, issued>>
          /\ IF attempts + 1 >= ConnectRetries
             THEN /\ httpStatus' = 500
                  /\ pc' = "done"
             ELSE /\ pc' = "connect"
                  /\ httpStatus' = httpStatus

\* frame of every step of an open stream
StepFrame ==
  /\ UNCHANGED nonServerVars
  /\ UNCHANGED <<activeConnections, sshConnected, connections, endpoint,
                 reqKey, reqBody, attempts, httpStatus>>


\* ------------------------------------------- POST /api/setup/download-and-run
Dar == endpoint = "download-and-run"

\* step 1: `mkdir -p` settles; its result is not read
DarMkdir ==
  /\ Dar /\ pc = "mkdir" /\ StepFrame
  /\ \E r \in Outcomes(reqKey, PlainOutcomes) :
       /\ Complete(r)
       /\ IF r.rejected
          THEN Catch(RejectMsg)
          ELSE Continue(<<StepEv(2, "Checking for download tools...")>>,
                        WhichCurl, "curl")

\* step 2 after detectDownloadTool returned `tool` ("" stands for null)
DarToolChosen(tool) ==
  IF tool = ""
  THEN Catch(NoToolMsg)
  ELSE Continue(<<InfoEv(UsingMsg(tool)), StepEv(2, "Downloading repository...")>>,
                generateDownloadCommand(tool), "download")

\* the download command settles; only a rejection is treated as a failure
DarDownload ==
  /\ Dar /\ pc = "download" /\ StepFrame
  /\ \E r \in Outcomes(reqKey, StreamOutcomes) :
       /\ Complete(r)
       /\ IF r.rejected
          THEN Catch(RejectMsg)
          ELSE Continue(Chunks(r), TestArchive, "filecheck")

\* verify download: `test -f archive && echo exists`
DarFileCheck ==
  /\ Dar /\ pc = "filecheck" /\ StepFrame
  /\ \E r \in Outcomes(reqKey, CheckOutcomes) :
       /\ Complete(r)
       /\ IF ~ArchiveFound(r)
          THEN Catch(NoArchiveMsg)
          ELSE Continue(<<StepEv(3, "Extracting archive...")>>,
                        generateExtractCommand, "extract")

\* step 3: tar settles
DarExtract ==
  /\ Dar /\ pc = "extract" /\ StepFrame
  /\ \E r \in Outcomes(reqKey, StreamOutcomes) :
       /\ Complete(r)
       /\ IF r.rejected
          THEN Catch(RejectMsg)
          ELSE Continue(Chunks(r) \o <<StepEv(4, "Installing dependencies...")>>,
                        TestPackageJson, "pkgcheck")

\* step 4: the package.json check settles
DarPackageJsonCheck ==
  /\ Dar /\ pc = "pkgcheck" /\ StepFrame
  /\ \E r \in Outcomes(reqKey, CheckOutcomes) :
       /\ Complete(r)
       /\ IF HasPackageJson(r)
          THEN Continue(<<InfoEv("Found package.json, installing dependencies...")>>,
                        InstallCmd, "install")
          ELSE Continue(<<InfoEv("No package.json found, skipping dependency installation"),
                          StepEv(5, "Running hub-setup.js...")>>,
                        RunCmd, "setup")

\* step 4: npm install settles
DarInstall ==
  /\ Dar /\ pc = "install" /\ StepFrame
  /\ \E r \in Outcomes(reqKey, StreamOutcomes) :
       /\ Complete(r)
       /\ IF r.rejected
          THEN Catch(RejectMsg)
          ELSE Continue(Chunks(r) \o <<InfoEv("Dependencies installed successfully"),
                                       StepEv(5, "Running hub-setup.js...")>>,
                        RunCmd, "setup")

\* step 5: node hub-setup.js settles
DarSetup ==
  /\ Dar /\ pc = "setup" /\ StepFrame
  /\ \E r \in Outcomes(reqKey, StreamOutcomes) :
       /\ Complete(r)
       /\ IF r.rejected
          THEN Catch(RejectMsg)
          ELSE Finish(Chunks(r) \o <<SuccessEv("Setup completed successfully!")>>)

\* ------------------------------------------- POST /api/github/download-branch
Db == endpoint = "download-branch"

DbMkdir ==
  /\ Db /\ pc = "mkdir" /\ StepFrame
  /\ \E r \in Outcomes(reqKey, PlainOutcomes) :
       /\ Complete(r)
       /\ IF r.rejected
          THEN Catch(RejectMsg)
          ELSE Continue(<<InfoEv("Directory created"),
                          InfoEv("Checking for download tools...")>>,
                        WhichCurl, "curl")

DbToolChosen(tool) ==
  IF tool = ""
  THEN Catch(NoToolMsg)
  ELSE Continue(<<InfoEv(UsingMsg(tool)), InfoEv("Downloading branch archive...")>>,
                generateDownloadCommand(tool), "download")

DbDownload ==
  /\ Db /\ pc = "download" /\ StepFrame
  /\ \E r \in Outcomes(reqKey, StreamOutcomes) :
       /\ Complete(r)
       /\ IF r.rejected
          THEN Catch(RejectMsg)
          ELSE Continue(Chunks(r), TestArchive, "filecheck")

DbFileCheck ==
  /\ Db /\ pc = "filecheck" /\ StepFrame
  /\ \E r \in Outcomes(reqKey, CheckOutcomes) :
       /\ Complete(r)
       /\ IF ~ArchiveFound(r)
          THEN Catch(NoFileMsg)
          ELSE Finish(<<SuccessEv("Download completed")>>)

\* --------------------------------------------- POST /api/github/download-file
Df == endpoint = "download-file"
TestFile == "test -f file"

DfToolChosen(tool) ==
  IF tool = ""
  THEN Catch(NoToolMsg)
  ELSE Continue(<<InfoEv(IF tool = "curl" THEN "Downloading file using curl..."
                         ELSE "Downloading file using wget...")>>,
                generateDownloadCommand(tool), "download")

DfDownload ==
  /\ Df /\ pc = "download" /\ StepFrame
  /\ \E r \in Outcomes(reqKey, StreamOutcomes) :
       /\ Complete(r)
       /\ IF r.rejected
          THEN Catch(RejectMsg)
          ELSE Continue(Chunks(r), TestFile, "filecheck")

DfFileCheck ==
  /\ Df /\ pc = "filecheck" /\ StepFrame
  /\ \E r \in Outcomes(reqKey, CheckOutcomes) :
       /\ Complete(r)
       /\ IF ~ArchiveFound(r)
          THEN Catch(NoFileMsg)
          ELSE Finish(<<SuccessEv("File downloaded")>>)

\* ------------------------------------------------- POST /api/github/extract
ExExtract ==
  /\ endpoint = "extract" /\ pc = "extract" /\ StepFrame
  /\ \E r \in Outcomes(reqKey, StreamOutcomes) :
       /\ Complete(r)
       /\ IF r.rejected
          THEN Catch(RejectMsg)
          ELSE Finish(Chunks(r) \o <<SuccessEv("Extraction completed")>>)

\* ---------------------------------------------- POST /api/ssh/execute-stream
ExecuteStream ==
  /\ endpoint = "execute-stream" /\ pc = "exec" /\ StepFrame
  /\ \E r \in Outcomes(reqKey, StreamOutcomes) :
       /\ Complete(r)
       /\ IF r.rejected
          THEN Catch(RejectMsg)
          ELSE Finish(Chunks(r) \o <<DoneEv>>)

\* ------------------------------------------------------- detectDownloadTool
\* variant: with no tool found the handlers go on with wget
ToolChosen_fallback(tool) ==
  CASE Dar -> DarToolChosen(IF tool = "" THEN "wget" ELSE tool)
    [] Db -> DbToolChosen(IF tool = "" THEN "wget" ELSE tool)
    [] Df -> DfToolChosen(IF tool = "" THEN "wget" ELSE tool)
\* the caller's `if (!downloadTool) throw ...` and what follows
ToolChosen(tool) ==
  CASE Dar -> DarToolChosen(tool)
    [] Db -> DbToolChosen(tool)
    [] Df -> DfToolChosen(tool)

\* variant: a rejected `which curl` is rethrown to the caller
DetectCurl_rethrow ==
  /\ pc = "curl" /\ StepFrame
  /\ \E r \in Outcomes(reqKey, ProbeOutcomes) :
       /\ Complete(r)
       /\ IF r.rejected
          THEN Catch(RejectMsg)
          ELSE IF ToolFound(r)
               THEN ToolChosen("curl")
               ELSE Continue(<<>>, WhichWget, "wget")
\* `which curl` settles: curl is returned, or `which wget` is issued
DetectCurl ==
  /\ pc = "curl" /\ StepFrame
  /\ \E r \in Outcomes(reqKey, ProbeOutcomes) :
       /\ Complete(r)
       /\ IF ToolFound(r)
          THEN ToolChosen("curl")
          ELSE Continue(<<>>, WhichWget, "wget")

\* `which wget` settles: wget or null is returned
DetectWget ==
  /\ pc = "wget" /\ StepFrame
  /\ \E r \in Outcomes(reqKey, ProbeOutcomes) :
       /\ Complete(r)
       /\ IF ToolFound(r) THEN ToolChosen("wget") ELSE ToolChosen("")

\* ------------------------------------------------------------- environment
\* the transport of a connected session drops
ConnectionLost(k) ==
  /\ k \in activeConnections
  /\ sshConnected[k]
  /\ sshConnected' = [sshConnected EXCEPT ![k] = FALSE]
  /\ UNCHANGED nonServerVars
  /\ UNCHANGED <<activeConnections, connections, endpoint, reqKey, reqBody, pc,
          attempts,
                 httpStatus, events, closed, issued, results>>

\* the response is complete and the handler has returned
HandlerReturn ==
  /\ pc = "done"
  /\ pc' = "idle"
  /\ endpoint' = "none"
  /\ reqKey' = NoKey
  /\ reqBody' = NoBody
  /\ attempts' = 0
  /\ httpStatus' = 0
  /\ events' = <<>>
  /\ closed' = FALSE
  /\ issued' = <<>>
  /\ results' = <<>>
  /\ UNCHANGED <<activeConnections, sshConnected, connections>>
  /\ UNCHANGED nonServerVars

Next ==
  \/ \E e \in StreamEndpoints, b \in Bodies : Request(e, b)
  \/ \E ok \in BOOLEAN : ConnectAttempt(ok)
  \/ DarMkdir \/ DarDownload \/ DarFileCheck \/ DarExtract
  \/ DarPackageJsonCheck \/ DarInstall \/ DarSetup
  \/ DbMkdir \/ DbDownload \/ DbFileCheck
  \/ DfDownload \/ DfFileCheck
  \/ ExExtract
  \/ ExecuteStream
  \/ DetectCurl \/ DetectWget
  \/ \E k \in Keys : ConnectionLost(k)
  \/ HandlerReturn

Spec == Init /\ [][Next]_vars

\* ================================================= standalone SSH script
\* retry(fn, retries) with the recovery hook reconnectIfNeeded, and
\* connectToRaspberryPi, which is itself retry(<ssh.connect>).
\* A frame is one active call of retry:
\*   fn       "op" (the caller's operation), "connect" (ssh.connect),
\*            "exec-ssh" / "exec-local" (the closure of execCommandWithRetries
\*            of the SSH script / of the local script, whose retry has no hook)
\*   retries  the limit of this call
\*   attempts the local counter
\*   at       "loop"      evaluating the while condition
\*            "try"       fn() was invoked and is awaited
\*            "hook"      in the catch block, about to call reconnectIfNeeded
\*            "reconnect" awaiting connectToRaspberryPi inside the hook
\*            "delay"     awaiting the RETRY_DELAY_MS timer
Frame(fn, n) == [fn |-> fn, retries |-> n, attempts |-> 0, at |-> "loop"]
Top == stack[Len(stack)]
SetTop(f) == [stack EXCEPT ![Len(stack)] = f]
Pop == SubSeq(stack, 1, Len(stack) - 1)
Outermost == Len(stack) = 1
\* an entry of the trace: "attempt" n (fn invoked), "log" n (console.error
\* with the attempt number), "hook" / "hookdone" (reconnectIfNeeded called /
\* returned), "delay" (the timer fired), "return", "raise"
Tr(e, n) == [e |-> e, n |-> n]

RetryLimits == 0..RETRY_LIMIT

InitRetry ==
  /\ InitServer
  /\ InitSvc
  /\ InitReg
  /\ InitMainIdle
  /\ InitPipes
  /\ \E fn \in {"op", "connect", "exec-ssh", "exec-local"}, n \in RetryLimits :
        /\ call = [fn |-> fn, retries |-> IF fn = "op" THEN n ELSE RETRY_LIMIT]
        /\ stack = <<Frame(fn, IF fn = "op" THEN n ELSE RETRY_LIMIT)>>
  /\ scriptConnected \in BOOLEAN
  /\ opCalls = 0
  /\ hookCalls = 0
  /\ connectCalls = 0
  /\ anyConnectOk = FALSE
  /\ outcome = [kind |-> "none", error |-> "none"]
  /\ lastExec = NoExec
  /\ trace = <<>>

\* the innermost call returns normally: its caller, if any, is a hook that
\* now returns too and goes on to the delay
ReturnFrom ==
  IF Outermost
  THEN /\ stack' = <<>>
       /\ outcome' = [kind |-> "returned", error |-> "none"]
       /\ trace' = Append(trace, Tr("return", 0))
  ELSE /\ stack' = [Pop EXCEPT ![Len(stack) - 1].at = "delay"]
       /\ outcome' = outcome
       /\ trace' = IF Len(stack) = 2 THEN Append(trace, Tr("hookdone", 0)) ELSE trace

\* the innermost call throws: every caller is awaiting the hook inside its
\* catch block, so the exception leaves all of them
Throw(err) ==
  /\ stack' = <<>>
  /\ outcome' = [kind |-> "raised", error |-> err]

\* `while (attempts < retries)`
RetryLoop ==
  /\ stack # <<>> /\ Top.at = "loop"
  /\ IF Top.attempts < Top.retries
     THEN /\ stack' = SetTop([Top EXCEPT !.at = "try"])
          /\ outcome' = outcome
          /\ trace' = IF Outermost
                      THEN Append(trace, Tr("attempt", Top.attempts + 1)) ELSE trace
     ELSE ReturnFrom
  /\ UNCHANGED <<call, scriptConnected, opCalls, hookCalls, connectCalls, anyConnectOk>>
  /\ lastExec' = lastExec
  /\ UNCHANGED nonScriptVars

\* the console.error of the catch block, when it is the outermost call's
Logged == IF Outermost THEN <<Tr("log", Top.attempts + 1)>> ELSE <<>>

\* variant: the catch block goes to the delay without calling the hook
RetryCatch_noHook(err) ==
  IF Top.attempts + 1 >= Top.retries
  THEN /\ Throw(err)
       /\ trace' = trace \o Logged \o <<Tr("raise", 0)>>
  ELSE /\ stack' = SetTop([Top EXCEPT !.attempts = @ + 1, !.at = "delay"])
       /\ outcome' = outcome
       /\ trace' = trace \o Logged
\* the catch block up to the limit test: count, log, rethrow at the limit
RetryCatch(err) ==
  IF Top.attempts + 1 >= Top.retries
  THEN /\ Throw(err)
       /\ trace' = trace \o Logged \o <<Tr("raise", 0)>>
  ELSE /\ stack' = SetTop([Top EXCEPT !.attempts = @ + 1,
                                       !.at = IF Top.fn = "exec-local"
                                              THEN "delay" ELSE "hook"])
       /\ outcome' = outcome
       /\ trace' = trace \o Logged

\* `return await fn()` for the caller's operation
RetryTryOp(ok) ==
  /\ stack # <<>> /\ Top.at = "try" /\ Top.fn = "op"
  /\ opCalls' = opCalls + 1
  /\ IF ok THEN ReturnFrom ELSE RetryCatch("op")
  /\ UNCHANGED <<call, scriptConnected, hookCalls, connectCalls, anyConnectOk>>
  /\ lastExec' = lastExec
  /\ UNCHANGED nonScriptVars

\* `return await fn()` for connectToRaspberryPi's ssh.connect
RetryTryConnect(ok) ==
  /\ stack # <<>> /\ Top.at = "try" /\ Top.fn = "connect"
  /\ connectCalls < MaxConnects
  /\ connectCalls' = connectCalls + 1
  /\ scriptConnected' = ok
  /\ anyConnectOk' = (anyConnectOk \/ ok)
  /\ IF ok THEN ReturnFrom ELSE RetryCatch("connect")
  /\ UNCHANGED <<call, opCalls, hookCalls>>
  /\ lastExec' = lastExec
  /\ UNCHANGED nonScriptVars

\* results of ssh.execCommand / of $`sh -c ...`.nothrow() seen by the closure
ExecResults(fn) ==
  IF fn = "exec-ssh" /\ ~scriptConnected
  THEN {[rejected |-> TRUE, code |-> -1, stderr |-> ""]}
  ELSE {[rejected |-> FALSE, code |-> c, stderr |-> e] : c \in {0, 1}, e \in {"", "err"}}

\* SSH script: `if (result.stderr) throw new Error(result.stderr)`
SshExecThrows(r) == r.rejected \/ r.stderr # ""
\* local script: `if (result.stderr && result.exitCode !== 0) throw ...`
LocalExecThrows(r) == r.stderr # "" /\ r.code # 0
ExecThrows(fn, r) == IF fn = "exec-ssh" THEN SshExecThrows(r) ELSE LocalExecThrows(r)

\* `return await fn()` for the closure of execCommandWithRetries
RetryTryExec ==
  /\ stack # <<>> /\ Top.at = "try" /\ Top.fn \in {"exec-ssh", "exec-local"}
  /\ opCalls' = opCalls + 1
  /\ \E r \in ExecResults(Top.fn) :
       /\ lastExec' = [seen |-> TRUE, rejected |-> r.rejected, code |-> r.code,
                       stderr |-> r.stderr, threw |-> ExecThrows(Top.fn, r)]
       /\ IF ExecThrows(Top.fn, r) THEN RetryCatch("op") ELSE ReturnFrom
  /\ UNCHANGED <<call, scriptConnected, hookCalls, connectCalls, anyConnectOk>>
  /\ UNCHANGED nonScriptVars

\* reconnectIfNeeded, called from the catch block
reconnectIfNeeded ==
  /\ stack # <<>> /\ Top.at = "hook"
  /\ hookCalls' = IF Outermost THEN hookCalls + 1 ELSE hookCalls
  /\ IF scriptConnected
     THEN stack' = SetTop([Top EXCEPT !.at = "delay"])
     ELSE /\ Len(stack) < MaxDepth
          /\ stack' = Append(SetTop([Top EXCEPT !.at = "reconnect"]),
                              Frame("connect", RETRY_LIMIT))
  /\ trace' = IF ~Outermost THEN trace
              ELSE IF scriptConnected
                   THEN trace \o <<Tr("hook", 0), Tr("hookdone", 0)>>
                   ELSE Append(trace, Tr("hook", 0))
  /\ UNCHANGED <<call, scriptConnected, opCalls, connectCalls, anyConnectOk, outcome>>
  /\ lastExec' = lastExec
  /\ UNCHANGED nonScriptVars

\* the RETRY_DELAY_MS timer fires
RetryDelay ==
  /\ stack # <<>> /\ Top.at = "delay"
  /\ stack' = SetTop([Top EXCEPT !.at = "loop"])
  /\ trace' = IF Outermost THEN Append(trace, Tr("delay", 0)) ELSE trace
  /\ UNCHANGED <<call, scriptConnected, opCalls, hookCalls, connectCalls,
                 anyConnectOk, outcome>>
  /\ lastExec' = lastExec
  /\ UNCHANGED nonScriptVars

\* the script's transport drops
ScriptConnectionLost ==
  /\ stack # <<>> /\ scriptConnected
  /\ scriptConnected' = FALSE
  /\ UNCHANGED <<call, stack, opCalls, hookCalls, connectCalls, anyConnectOk, outcome>>
  /\ trace' = trace
  /\ lastExec' = lastExec
  /\ UNCHANGED nonScriptVars

NextRetry ==
  \/ RetryLoop
  \/ \E ok \in BOOLEAN : RetryTryOp(ok)
  \/ \E ok \in BOOLEAN : RetryTryConnect(ok)
  \/ RetryTryExec
  \/ reconnectIfNeeded
  \/ RetryDelay
  \/ ScriptConnectionLost

SpecRetry == InitRetry /\ [][NextRetry]_vars


\* ======================================================= one SSHService
\* The methods of one SSHService object, called one after the other.  All
\* entries of its `connections` map hold the same NodeSSH object, this.ssh.
SvcRetries == 0..ConnectRetries

CallOf(op, k, n) ==
  [op |-> op, key |-> k, retries |-> n, attempts |-> 0, pc |-> "done",
   disposed |-> 0, transport |-> 0, threw |-> FALSE,
   pre |-> [connected |-> svcConnected, stored |-> svcStored]]

\* connect(ip, username, password, retries) up to its first await
SvcConnect(k, n) ==
  /\ svcOp.pc = "idle"
  /\ UNCHANGED <<svcConnected, svcStored>>
  /\ UNCHANGED nonSvcVars
  /\ IF k \in svcStored /\ svcConnected
     THEN svcOp' = CallOf("connect", k, n)
     ELSE IF 0 < n
          THEN svcOp' = [CallOf("connect", k, n) EXCEPT !.pc = "connecting",
                                                       !.transport = 1]
          ELSE svcOp' = CallOf("connect", k, n)

\* variant: the key is recorded before the transport connect is awaited
StoredAfter_eager(stored, key, ok) == stored \cup {key}
\* the connections map after one awaited this.ssh.connect: the set follows
\* the await inside the try block, so a rejected connect skips it
StoredAfter(stored, key, ok) == IF ok THEN stored \cup {key} ELSE stored

\* variant: the last failure ends the loop without throwing
SvcConnectSettle_swallow(ok) ==
  /\ svcOp.pc = "connecting" /\ svcOp.transport = svcOp.attempts + 1
  /\ UNCHANGED nonSvcVars
  /\ IF ok
     THEN /\ svcConnected' = TRUE
          /\ svcStored' = StoredAfter(svcStored, svcOp.key, TRUE)
          /\ svcOp' = [svcOp EXCEPT !.pc = "done"]
     ELSE /\ svcConnected' = FALSE
          /\ svcStored' = StoredAfter(svcStored, svcOp.key, FALSE)
          /\ IF svcOp.attempts + 1 >= svcOp.retries
             THEN svcOp' = [svcOp EXCEPT !.attempts = @ + 1, !.pc = "done"]
             ELSE svcOp' = [svcOp EXCEPT !.attempts = @ + 1]
\* the awaited this.ssh.connect settles
SvcConnectSettle(ok) ==
  /\ svcOp.pc = "connecting" /\ svcOp.transport = svcOp.attempts + 1
  /\ UNCHANGED nonSvcVars
  /\ IF ok
     THEN /\ svcConnected' = TRUE
          /\ svcStored' = StoredAfter(svcStored, svcOp.key, TRUE)
          /\ svcOp' = [svcOp EXCEPT !.pc = "done"]
     ELSE /\ svcConnected' = FALSE
          /\ svcStored' = StoredAfter(svcStored, svcOp.key, FALSE)
          /\ IF svcOp.attempts + 1 >= svcOp.retries
             THEN svcOp' = [svcOp EXCEPT !.attempts = @ + 1, !.pc = "done",
                                         !.threw = TRUE]
             ELSE svcOp' = [svcOp EXCEPT !.attempts = @ + 1]

\* the 2000 ms timer after a failed attempt fires: the loop condition holds
\* and this.ssh.connect is called again
SvcConnectRetry ==
  /\ svcOp.pc = "connecting" /\ svcOp.transport = svcOp.attempts
  /\ svcOp' = [svcOp EXCEPT !.transport = @ + 1]
  /\ UNCHANGED <<svcConnected, svcStored>>
  /\ UNCHANGED nonSvcVars

\* variant: dispose is called whatever isConnected() says
ShouldDispose_always(conn) == TRUE
\* `if (this.ssh.isConnected())` of disconnect
ShouldDispose(conn) == conn

\* disconnect() up to its await of dispose
SvcDisconnect ==
  /\ svcOp.pc = "idle"
  /\ UNCHANGED nonSvcVars
  /\ svcStored' = svcStored
  /\ IF ShouldDispose(svcConnected)
     THEN /\ svcConnected' = FALSE
          /\ svcOp' = [CallOf("disconnect", NoKey, 0) EXCEPT !.disposed = 1,
                                                           !.pc = "disposing"]
     ELSE /\ svcConnected' = svcConnected
          /\ svcOp' = CallOf("disconnect", NoKey, 0)

\* disconnectConnection(ip, username) up to its await of dispose; the entry
\* is deleted by the continuation
SvcDisconnectConnection(k) ==
  /\ svcOp.pc = "idle"
  /\ UNCHANGED nonSvcVars
  /\ IF k \in svcStored /\ svcConnected
     THEN /\ svcConnected' = FALSE
          /\ svcStored' = svcStored
          /\ svcOp' = [CallOf("disconnectConnection", k, 0) EXCEPT !.disposed = 1,
                                                                 !.pc = "disposing"]
     ELSE /\ UNCHANGED <<svcConnected, svcStored>>
          /\ svcOp' = CallOf("disconnectConnection", k, 0)

\* the for loop of disconnectAll over the entries `todo`: every entry is
\* the same handle, disposed when it still reports connected
RECURSIVE DisposeEach(_, _, _)
DisposeEach(todo, conn, n) ==
  IF todo = {}
  THEN [connected |-> conn, disposed |-> n]
  ELSE LET k == CHOOSE x \in todo : TRUE
       IN IF conn
          THEN DisposeEach(todo \ {k}, FALSE, n + 1)
          ELSE DisposeEach(todo \ {k}, conn, n)

\* variant: the map is not cleared after the loop
Cleared_kept(stored) == stored
\* `this.connections.clear()`
Cleared(stored) == {}

\* disconnectAll() up to its first await: the loop parks on the dispose of
\* the first entry that reports connected; with none, the map is cleared in
\* the same turn
SvcDisconnectAll ==
  /\ svcOp.pc = "idle"
  /\ UNCHANGED nonSvcVars
  /\ IF svcStored # {} /\ svcConnected
     THEN /\ svcConnected' = FALSE
          /\ svcStored' = svcStored
          /\ svcOp' = [CallOf("disconnectAll", NoKey, 0) EXCEPT !.disposed = 1,
                                                              !.pc = "disposing"]
     ELSE /\ svcConnected' = svcConnected
          /\ svcStored' = Cleared(svcStored)
          /\ svcOp' = CallOf("disconnectAll", NoKey, 0)

\* the awaited dispose settles and the method goes on: disconnect returns,
\* disconnectConnection deletes its entry, disconnectAll finishes its loop
\* and clears the map
SvcDisposeDone ==
  /\ svcOp.pc = "disposing"
  /\ UNCHANGED nonSvcVars
  /\ CASE svcOp.op = "disconnect" ->
            /\ UNCHANGED <<svcConnected, svcStored>>
            /\ svcOp' = [svcOp EXCEPT !.pc = "done"]
       [] svcOp.op = "disconnectConnection" ->
            /\ svcConnected' = svcConnected
            /\ svcStored' = svcStored \ {svcOp.key}
            /\ svcOp' = [svcOp EXCEPT !.pc = "done"]
       [] svcOp.op = "disconnectAll" ->
            LET r == DisposeEach(svcStored, svcConnected, svcOp.disposed)
            IN /\ svcConnected' = r.connected
               /\ svcStored' = Cleared(svcStored)
               /\ svcOp' = [svcOp EXCEPT !.pc = "done", !.disposed = r.disposed]

\* the transport of the handle drops
SvcConnectionLost ==
  /\ svcConnected
  /\ svcConnected' = FALSE
  /\ UNCHANGED <<svcStored, svcOp>>
  /\ UNCHANGED nonSvcVars

\* the call has returned or thrown; the next call may start
SvcReturn ==
  /\ svcOp.pc = "done"
  /\ svcOp' = NoCall
  /\ UNCHANGED <<svcConnected, svcStored>>
  /\ UNCHANGED nonSvcVars

NextSvc ==
  \/ \E k \in Keys, n \in SvcRetries : SvcConnect(k, n)
  \/ \E ok \in BOOLEAN : SvcConnectSettle(ok)
  \/ SvcConnectRetry
  \/ SvcDisconnect
  \/ \E k \in Keys : SvcDisconnectConnection(k)
  \/ SvcDisconnectAll
  \/ SvcDisposeDone
  \/ SvcConnectionLost
  \/ SvcReturn

SpecSvc == Init /\ [][NextSvc]_vars

\* ============================================ concurrent requests on the server
\* Each handler runs to its next `await`; the steps of different requests
\* interleave at those points.  A request record holds
\*   kind     "connect" | "execute" | "disconnect"
\*   svc      the SSHService the handler obtained
\*   found    what the registry held for the key when the request arrived
\*   pc       "connecting" (await sshService.connect), "exec" (await
\*            executeCommand), "disposing" (await sshService.disconnect()),
\*            "done" (response sent)

\* variant: an unhealthy entry is replaced as if it were missing
NeedsNew_unhealthy(k) == registry[k] = NoObj \/ ~objConnected[registry[k]]
\* `!activeConnections.has(key)` of getSSHService
NeedsNew(k) == registry[k] = NoObj

\* getSSHService: the object returned, and the registry afterwards
Obtained(k) == IF NeedsNew(k) THEN nextObj ELSE registry[k]
RegistryAfterGet(k) ==
  IF NeedsNew(k) THEN [registry EXCEPT ![k] = nextObj] ELSE registry

\* what the registry holds for k when a request arrives
Found(k) ==
  IF registry[k] = NoObj THEN "absent"
  ELSE IF objConnected[registry[k]] THEN "healthy" ELSE "unhealthy"

\* variant: every request authenticates
MustConnect_always(kind, o) == TRUE
\* whether the request reaches this.ssh.connect: /api/ssh/connect calls
\* connect(), which returns early on a stored connected session; the other
\* handlers test `!sshService.isConnected()`
MustConnect(kind, o) ==
  IF kind = "connect" THEN ~(objStored[o] /\ objConnected[o])
  ELSE ~objConnected[o]

\* a slot is free before its first request and once its response is sent; a
\* new request takes the first free slot
Free(p) == procs[p].pc \in {"idle", "done"}
Accepts(p) == Free(p) /\ \A q \in Procs : q < p => ~Free(q)

\* keys are interchangeable, so a request names a key the registry or a
\* handler already knows, or the first key that none of them knows
NextKey(k) ==
  LET Known(x) == registry[x] # NoObj \/ \E q \in Procs : procs[q].key = x
  IN Known(k) \/ \A x \in Keys : x[1] < k[1] => Known(x)

\* POST /api/ssh/connect and POST /api/ssh/execute up to their first await
ConcRequest(p, kind, k) ==
  /\ Accepts(p)
  /\ NextKey(k)
  /\ served < MaxRequests
  /\ served' = served + 1
  /\ NeedsNew(k) => nextObj <= MaxObjs
  /\ registry' = RegistryAfterGet(k)
  /\ nextObj' = IF NeedsNew(k) THEN nextObj + 1 ELSE nextObj
  /\ procs' = [procs EXCEPT ![p] =
       [kind |-> kind, key |-> k, svc |-> Obtained(k), found |-> Found(k),
        attempts |-> 0,
        transport |-> IF MustConnect(kind, Obtained(k)) THEN 1 ELSE 0,
        pc |-> IF MustConnect(kind, Obtained(k)) THEN "connecting"
               ELSE IF kind = "connect" THEN "done" ELSE "exec",
        status |-> IF ~MustConnect(kind, Obtained(k)) /\ kind = "connect"
                   THEN 200 ELSE 0]]
  /\ UNCHANGED <<objConnected, objStored>>
  /\ UNCHANGED nonRegVars

\* the awaited this.ssh.connect of one pass of a request's connect() settles:
\* on success the key is stored and the handler goes on; on failure attempts
\* is incremented and connect() throws at the limit (the handler answers
\* 500) or waits on its 2000 ms timer
ConcConnectSettle(p, ok) ==
  /\ procs[p].pc = "connecting" /\ procs[p].transport = procs[p].attempts + 1
  /\ UNCHANGED <<registry, nextObj, served>>
  /\ UNCHANGED nonRegVars
  /\ IF ok
     THEN /\ objConnected' = [objConnected EXCEPT ![procs[p].svc] = TRUE]
          /\ objStored' = [objStored EXCEPT ![procs[p].svc] = TRUE]
          /\ procs' = [procs EXCEPT ![p].pc = IF procs[p].kind = "connect"
                                              THEN "done" ELSE "exec",
                                    ![p].status = IF procs[p].kind = "connect"
                                                  THEN 200 ELSE 0]
     ELSE /\ \E c \in {objConnected[procs[p].svc], FALSE} :
               objConnected' = [objConnected EXCEPT ![procs[p].svc] = c]
          /\ objStored' = objStored
          /\ IF procs[p].attempts + 1 >= ConnectRetries
             THEN procs' = [procs EXCEPT ![p].attempts = @ + 1,
                                         ![p].pc = "done", ![p].status = 500]
             ELSE procs' = [procs EXCEPT ![p].attempts = @ + 1]

\* the timer of a request's connect() fires and the next pass calls
\* this.ssh.connect
ConcConnectRetry(p) ==
  /\ procs[p].pc = "connecting" /\ procs[p].transport = procs[p].attempts
  /\ procs' = [procs EXCEPT ![p].transport = @ + 1]
  /\ UNCHANGED <<registry, nextObj, objConnected, objStored, served>>
  /\ UNCHANGED nonRegVars

\* the awaited sshService.executeCommand settles
ConcExecSettle(p, ok) ==
  /\ procs[p].pc = "exec"
  /\ ok => objConnected[procs[p].svc]
  /\ procs' = [procs EXCEPT ![p].pc = "done",
                            ![p].status = IF ok THEN 200 ELSE 500]
  /\ UNCHANGED <<registry, nextObj, objConnected, objStored, served>>
  /\ UNCHANGED nonRegVars

\* variant: the entry stays in the map
Deleted_kept(reg, k) == reg
\* `activeConnections.delete(key)`
Deleted(reg, k) == [reg EXCEPT ![k] = NoObj]

\* POST /api/ssh/disconnect up to `await sshService.disconnect()`, or to its
\* response when the key has no entry
ConcDisconnect(p, k) ==
  /\ Accepts(p)
  /\ NextKey(k)
  /\ served < MaxRequests
  /\ served' = served + 1
  /\ UNCHANGED <<registry, nextObj, objStored>>
  /\ UNCHANGED nonRegVars
  /\ IF registry[k] # NoObj
     THEN /\ objConnected' =
               IF ShouldDispose(objConnected[registry[k]])
               THEN [objConnected EXCEPT ![registry[k]] = FALSE]
               ELSE objConnected
          /\ procs' = [procs EXCEPT ![p] =
               [kind |-> "disconnect", key |-> k, svc |-> registry[k],
                found |-> Found(k), attempts |-> 0, transport |-> 0,
                pc |-> "disposing",
                status |-> 0]]
     ELSE /\ objConnected' = objConnected
          /\ procs' = [procs EXCEPT ![p] =
               [kind |-> "disconnect", key |-> k, svc |-> NoObj,
                found |-> "absent", attempts |-> 0, transport |-> 0,
                pc |-> "done",
                status |-> 200]]

\* the disconnect handler resumes: delete the entry and respond
ConcDisposeDone(p) ==
  /\ procs[p].pc = "disposing"
  /\ registry' = Deleted(registry, procs[p].key)
  /\ procs' = [procs EXCEPT ![p].pc = "done", ![p].status = 200]
  /\ UNCHANGED <<nextObj, objConnected, objStored, served>>
  /\ UNCHANGED nonRegVars

\* the transport of a connected session drops
ConcConnectionLost(o) ==
  /\ objConnected[o]
  /\ objConnected' = [objConnected EXCEPT ![o] = FALSE]
  /\ UNCHANGED <<registry, nextObj, objStored, procs, served>>
  /\ UNCHANGED nonRegVars

NextReg ==
  \/ \E p \in Procs, kind \in {"connect", "execute"}, k \in Keys :
       ConcRequest(p, kind, k)
  \/ \E p \in Procs, ok \in BOOLEAN : ConcConnectSettle(p, ok)
  \/ \E p \in Procs : ConcConnectRetry(p)
  \/ \E p \in Procs, ok \in BOOLEAN : ConcExecSettle(p, ok)
  \/ \E p \in Procs, k \in Keys : ConcDisconnect(p, k)
  \/ \E p \in Procs : ConcDisposeDone(p)
  \/ \E o \in Objs : ConcConnectionLost(o)

SpecReg == Init /\ [][NextReg]_vars

\* ================================== the top-level function of the two scripts
\* The statements of the async IIFE, in order.  A statement is one of
\*   "cmd"      an awaited helper or $`...` that throws when it fails
\*   "prereq"   the npm test: `return` after logging when npm is missing
\*   "check"    checkPackageInstalled: when true the install that follows
\*              is skipped
\*   "guard"    fs.existsSync / checkFileExists in an `if`: when false the
\*              next `skip` statements are skipped
\*   "must"     a test whose failure is turned into `throw new Error(...)`
\*   "quiet"    createNetworkIfNotExists, which catches its own errors
\* `throws` tells whether the statement itself can throw (a $`...`.nothrow()
\* or fs.existsSync cannot).
St(name, kind, skip, throws) == [name |-> name, kind |-> kind, skip |-> skip, throws |-> throws]

SshMain ==
  << St("connectToRaspberryPi", "cmd", 0, TRUE),
     St("ssh ls", "cmd", 0, TRUE),
     St("npm installed", "prereq", 0, TRUE),
     St("pm2 installed", "check", 1, TRUE),
     St("npm i -g pm2", "cmd", 0, TRUE),
     St("zx installed", "check", 1, TRUE),
     St("npm i -g zx", "cmd", 0, TRUE),
     St("mkdir logs", "cmd", 0, TRUE),
     St("mkdir plugins", "cmd", 0, TRUE),
     St("upload node-manager", "cmd", 0, TRUE),
     St("upload podman-remote-api", "cmd", 0, TRUE),
     St("mv podman-remote-api", "cmd", 0, TRUE),
     St("tar file exists", "must", 0, TRUE),
     St("tar -xvzf", "cmd", 0, TRUE),
     St("chmod +x", "cmd", 0, TRUE),
     St("podman --version", "must", 0, TRUE),
     St("createNetworkIfNotExists", "quiet", 0, FALSE),
     St("pm2 startup", "cmd", 0, TRUE),
     St("systemctl enable pm2-root", "cmd", 0, TRUE),
     St("pm2 save", "cmd", 0, TRUE),
     St("pm2 install pm2-logrotate", "cmd", 0, TRUE),
     St("upload ecosystem.config.js", "cmd", 0, TRUE),
     St("pm2 start", "cmd", 0, TRUE),
     St("pm2 save again", "cmd", 0, TRUE) >>

LocalMain ==
  << St("npm --version", "prereq", 0, FALSE),
     St("pm2 installed", "check", 1, TRUE),
     St("npm i -g pm2", "cmd", 0, TRUE),
     St("zx installed", "check", 1, TRUE),
     St("npm i -g zx", "cmd", 0, TRUE),
     St("mkdir logs", "cmd", 0, TRUE),
     St("mkdir plugins", "cmd", 0, TRUE),
     St("node-manager exists", "guard", 1, FALSE),
     St("cp node-manager", "cmd", 0, TRUE),
     St("podman-remote-api exists", "guard", 2, FALSE),
     St("cp podman-remote-api", "cmd", 0, TRUE),
     St("chmod +x", "cmd", 0, TRUE),
     St("tar file exists", "guard", 1, TRUE),
     St("tar -xvzf", "cmd", 0, TRUE),
     St("podman --version", "must", 0, FALSE),
     St("createNetworkIfNotExists", "quiet", 0, FALSE),
     St("pm2 startup", "cmd", 0, TRUE),
     St("systemctl enable pm2-root", "cmd", 0, TRUE),
     St("pm2 save", "cmd", 0, TRUE),
     St("pm2 install pm2-logrotate", "cmd", 0, TRUE),
     St("ecosystem.config.js exists", "guard", 3, FALSE),
     St("cp ecosystem.config.js", "cmd", 0, TRUE),
     St("pm2 start", "cmd", 0, TRUE),
     St("pm2 save again", "cmd", 0, TRUE) >>

MainOf(script) == IF script = "ssh" THEN SshMain ELSE LocalMain

\* what a statement can do: go on, skip what it guards, return from the
\* function, or throw into the catch block
Effects(st) ==
  (CASE st.kind = "cmd" -> {"next"}
     [] st.kind = "prereq" -> {"next", "return"}
     [] st.kind = "check" -> {"next", "skip"}
     [] st.kind = "guard" -> {"next", "skip"}
     [] st.kind = "must" -> {"next", "throw"}
     [] st.kind = "quiet" -> {"next"})
  \cup (IF st.throws THEN {"throw"} ELSE {})

InitMain ==
  /\ InitServer /\ InitScriptIdle /\ InitSvc /\ InitReg /\ InitPipes
  /\ \E s \in {"ssh", "local"} :
       main = [NoMain EXCEPT !.script = s, !.step = 1, !.end = "running"]

\* the statement at main.step runs
MainStatement ==
  /\ main.end = "running"
  /\ UNCHANGED nonMainVars
  /\ IF main.step > Len(MainOf(main.script))
     THEN main' = [main EXCEPT !.end = "completed"]
     ELSE \E eff \in Effects(MainOf(main.script)[main.step]) :
            main' = CASE eff = "next" -> [main EXCEPT !.step = @ + 1, !.ran = @ + 1]
                      [] eff = "skip" ->
                           [main EXCEPT !.step = @ + 1 + MainOf(main.script)[main.step].skip,
                                        !.ran = @ + 1]
                      [] eff = "return" -> [main EXCEPT !.end = "prerequisite missing",
                                                        !.ran = @ + 1]
                      [] eff = "throw" -> [main EXCEPT !.end = "error", !.ran = @ + 1]

\* variant: the catch block of either script ends the process at once
CatchExit_exits(script) == 1
\* the catch block: console.error, then process.exit(1) in the local script
CatchExit(script) == IF script = "local" THEN 1 ELSE -1

MainCatch ==
  /\ main.end = "error" /\ ~main.caught
  /\ main' = [main EXCEPT !.caught = TRUE, !.exit = CatchExit(main.script)]
  /\ UNCHANGED nonMainVars

\* `finally { ssh.dispose() }` of the SSH script
MainFinally ==
  /\ main.script = "ssh" /\ ~main.disposed /\ main.exit = -1
  /\ main.end \in {"completed", "prerequisite missing"} \/ main.caught
  /\ main' = [main EXCEPT !.disposed = TRUE]
  /\ UNCHANGED nonMainVars

\* the function has settled and nothing keeps the process alive: node exits
\* with status 0
MainProcessEnds ==
  /\ main.exit = -1
  /\ \/ main.script = "ssh" /\ main.disposed
     \/ main.script = "local" /\ main.end \in {"completed", "prerequisite missing"}
  /\ main' = [main EXCEPT !.exit = 0]
  /\ UNCHANGED nonMainVars

NextMain == MainStatement \/ MainCatch \/ MainFinally \/ MainProcessEnds

SpecMain == InitMain /\ [][NextMain]_vars

\* ======================================== concurrent download-and-run requests
\* Several POST /api/setup/download-and-run handlers in flight.  Each has its
\* own `res` and its own position in the handler; requests with the same
\* key share the SSHService of that key and so its connection.  A record
\* written to a response carries the run that wrote it and the number of
\* commands that run had seen settle.

\* results a command of the handler at `at` can settle with
PipeOutcomes(at, up) ==
  IF ~up THEN {Rejected}
  ELSE CASE at = "mkdir" -> {Exit(0, <<>>, "")}
         [] at \in {"curl", "wget"} -> {Exit(0, <<"/usr/bin/tool", "\n">>, ""), Exit(1, <<>>, "")}
         [] at \in {"filecheck", "pkgcheck"} -> {Exit(0, <<"exists", "\n">>, ""), Exit(1, <<>>, "")}
         [] OTHER -> {Exit(0, <<"out">>, "warn")}

\* what the handler writes and where it goes when the command awaited at
\* `at` settles with r
After(at, r) ==
  CASE at = "mkdir" ->
         IF r.rejected THEN [evs |-> CatchWrite(RejectMsg), next |-> "done"]
         ELSE [evs |-> <<StepEv(2, "Checking for download tools...")>>, next |-> "curl"]
    [] at = "curl" ->
         IF ToolFound(r)
         THEN [evs |-> <<InfoEv(UsingMsg("curl")), StepEv(2, "Downloading repository...")>>,
               next |-> "download"]
         ELSE [evs |-> <<>>, next |-> "wget"]
    [] at = "wget" ->
         IF ToolFound(r)
         THEN [evs |-> <<InfoEv(UsingMsg("wget")), StepEv(2, "Downloading repository...")>>,
               next |-> "download"]
         ELSE [evs |-> CatchWrite(NoToolMsg), next |-> "done"]
    [] at = "download" ->
         IF r.rejected THEN [evs |-> CatchWrite(RejectMsg), next |-> "done"]
         ELSE [evs |-> Chunks(r), next |-> "filecheck"]
    [] at = "filecheck" ->
         IF ~ArchiveFound(r) THEN [evs |-> CatchWrite(NoArchiveMsg), next |-> "done"]
         ELSE [evs |-> <<StepEv(3, "Extracting archive...")>>, next |-> "extract"]
    [] at = "extract" ->
         IF r.rejected THEN [evs |-> CatchWrite(RejectMsg), next |-> "done"]
         ELSE [evs |-> Chunks(r) \o <<StepEv(4, "Installing dependencies...")>>,
               next |-> "pkgcheck"]
    [] at = "pkgcheck" ->
         IF HasPackageJson(r)
         THEN [evs |-> <<InfoEv("Found package.json, installing dependencies...")>>,
               next |-> "install"]
         ELSE [evs |-> <<InfoEv("No package.json found, skipping dependency installation"),
                         StepEv(5, "Running hub-setup.js...")>>,
               next |-> "setup"]
    [] at = "install" ->
         IF r.rejected THEN [evs |-> CatchWrite(RejectMsg), next |-> "done"]
         ELSE [evs |-> Chunks(r) \o <<InfoEv("Dependencies installed successfully"),
                                      StepEv(5, "Running hub-setup.js...")>>,
               next |-> "setup"]
    [] at = "setup" ->
         IF r.rejected THEN [evs |-> CatchWrite(RejectMsg), next |-> "done"]
         ELSE [evs |-> Chunks(r) \o <<SuccessEv("Setup completed successfully!")>>,
               next |-> "done"]

PipeStages == {"mkdir", "curl", "wget", "download", "filecheck", "extract",
               "pkgcheck", "install", "setup"}

\* variant: one response object shared by all handlers
Sink_shared(r) == 1
\* the response a handler writes to: the `res` of its own invocation
Sink(r) == r

\* sendSSE of run r for each record of evs, after n of its commands settled
Tagged(r, n, evs) == [i \in DOMAIN evs |-> [run |-> r, seq |-> n, ev |-> evs[i]]]
Written(r, n, evs, at, st) ==
  [runs EXCEPT ![r].pc = at, ![r].status = st, ![r].settled = n,
               ![Sink(r)].events = @ \o Tagged(r, n, evs)]

\* the SSE headers are set and step 1 is announced
PipeOpen(r) == Written(r, 0, FirstEvents("download-and-run"), "mkdir", 200)

\* hosts are interchangeable, so a request names a host already named by an
\* earlier request or the first host not named yet
HostsNamed == {runs[q].key[1] : q \in {q \in Runs : runs[q].pc # "idle"}}
NextHost(k) == k[1] \in HostsNamed \/ \A h \in Hosts : h < k[1] => h \in HostsNamed

\* a request arrives: getSSHService, isConnected
PipeRequest(r, k) ==
  /\ runs[r].pc = "idle" /\ \A q \in Runs : q < r => runs[q].pc # "idle"
  /\ NextHost(k)
  /\ IF linkUp[k]
     THEN runs' = [PipeOpen(r) EXCEPT ![r].key = k]
     ELSE runs' = [runs EXCEPT ![r].key = k, ![r].pc = "connecting"]
  /\ UNCHANGED linkUp
  /\ UNCHANGED nonPipeVars

\* the awaited sshService.connect of a request settles: connected, or
\* thrown after its attempts, which the outer catch answers with 500
PipeConnectSettle(r, ok) ==
  /\ runs[r].pc = "connecting"
  /\ IF ok
     THEN /\ linkUp' = [linkUp EXCEPT ![runs[r].key] = TRUE]
          /\ runs' = PipeOpen(r)
     ELSE /\ linkUp' = linkUp
          /\ runs' = [runs EXCEPT ![r].pc = "done", ![r].status = 500]
  /\ UNCHANGED nonPipeVars

\* the command a handler awaits settles and the handler runs to its next await
PipeCommandSettles(r) ==
  /\ runs[r].pc \in PipeStages
  /\ \E res \in PipeOutcomes(runs[r].pc, linkUp[runs[r].key]) :
       runs' = Written(r, runs[r].settled + 1, After(runs[r].pc, res).evs,
                       After(runs[r].pc, res).next, runs[r].status)
  /\ UNCHANGED linkUp
  /\ UNCHANGED nonPipeVars

\* the transport of a key's session drops
PipeConnectionLost(k) ==
  /\ linkUp[k]
  /\ linkUp' = [linkUp EXCEPT ![k] = FALSE]
  /\ UNCHANGED runs
  /\ UNCHANGED nonPipeVars

NextPipes ==
  \/ \E r \in Runs, k \in Keys : PipeRequest(r, k)
  \/ \E r \in Runs, ok \in BOOLEAN : PipeConnectSettle(r, ok)
  \/ \E r \in Runs : PipeCommandSettles(r)
  \/ \E k \in Keys : PipeConnectionLost(k)

SpecPipes == Init /\ [][NextPipes]_vars

\* ===================================================================== claims
TerminalTypes == {"success", "error", "done"}
TypeIdx(evs, t) == {i \in DOMAIN evs : evs[i].type = t}
TerminalIdx(evs) == {i \in DOMAIN evs : evs[i].type \in TerminalTypes}
Settled == 1..Len(results)
NonZeroExit(r) == ~r.rejected /\ r.code # 0
ZeroExit(r) == ~r.rejected /\ r.code = 0
DownloadCmds == {generateCurlCommand, generateWgetCommand}
\* the commands of the create-directory, download, extract, install and
\* setup-script stages
StageCmds == {generateMkdirCommand, generateCurlCommand, generateWgetCommand,
              generateExtractCommand, InstallCmd, RunCmd}
\* ordinal of the pipeline stage a command belongs to
StageOf(cmd) ==
  CASE cmd = generateMkdirCommand -> 1
    [] cmd \in {WhichCurl, WhichWget} -> 2
    [] cmd \in DownloadCmds -> 3
    [] cmd = TestArchive -> 4
    [] cmd = generateExtractCommand -> 5
    [] cmd \in {TestPackageJson, InstallCmd} -> 6
    [] cmd = RunCmd -> 7
    [] OTHER -> 0
EndsInOneError ==
  /\ pc = "done"
  /\ Cardinality(TypeIdx(events, "error")) = 1
  /\ events # <<>> /\ Last(events).type = "error"

\* C1: in a download-and-run run, a stage command that settles with a
\* non-zero exit code is the last command issued, and the run fails with
\* exactly one error event as its last event.
C1_NonZeroExitFails ==
  Dar => \A i \in Settled :
           (issued[i].cmd \in StageCmds /\ NonZeroExit(results[i]))
             => (Len(issued) = i /\ EndsInOneError)

\* C2: in a download-and-run run, a command whose execution is rejected is
\* followed by no command of a later stage, and the run ends with exactly
\* one error event as its last event.
C2_RejectedCommandFails ==
  Dar => \A i \in Settled :
           results[i].rejected
             => /\ \A j \in DOMAIN issued :
                     j > i => StageOf(issued[j].cmd) <= StageOf(issued[i].cmd)
                /\ (pc = "done" => EndsInOneError)

\* C3: a download-and-run run that emitted the success event issued the
\* hub-setup.js command, and every stage command of the run exited with 0.
C3_SuccessOnlyAfterZeroExits ==
  (Dar /\ TypeIdx(events, "success") # {})
    => /\ \E i \in Settled : issued[i].cmd = RunCmd
       /\ \A i \in Settled : issued[i].cmd \in StageCmds => ZeroExit(results[i])

\* C4: when the download command exited 0 and the existence check then
\* reported no file, the run has ended with an error event, has no success
\* event, and no extract command was issued.
MissingArchiveCase ==
  \E i, j \in Settled :
     /\ i < j
     /\ issued[i].cmd \in DownloadCmds /\ ZeroExit(results[i])
     /\ issued[j].cmd = TestArchive
     /\ ~results[j].rejected /\ ~Includes(results[j].stdout, "exists")
C4_MissingArchiveIsError ==
  ((Dar \/ Db) /\ MissingArchiveCase)
    => /\ EndsInOneError
       /\ TypeIdx(events, "success") = {}
       /\ \A m \in DOMAIN issued : issued[m].cmd # generateExtractCommand
C4_Witness ==
  /\ Dar /\ MissingArchiveCase /\ pc = "done"
  /\ Last(events) = ErrorEv(NoArchiveMsg)

\* C5: when the manifest check reports no package.json, no install command
\* is issued, the skip info event is emitted, step 5 is emitted after it and
\* the setup command is issued after step 5.
SkipInfo == InfoEv("No package.json found, skipping dependency installation")
NoManifestCase ==
  \E j \in Settled :
     /\ issued[j].cmd = TestPackageJson
     /\ ~results[j].rejected /\ ~Includes(results[j].stdout, "exists")
C5_NoManifestSkipsInstall ==
  (Dar /\ NoManifestCase)
    => /\ \A m \in DOMAIN issued : issued[m].cmd # InstallCmd
       /\ \E a, b \in DOMAIN events :
            /\ a < b
            /\ events[a] = SkipInfo
            /\ events[b] = StepEv(5, "Running hub-setup.js...")
            /\ \E m \in DOMAIN issued : issued[m].cmd = RunCmd /\ issued[m].at >= b
C5_Witness ==
  /\ Dar /\ NoManifestCase /\ pc = "done"
  /\ \E m \in Settled : issued[m].cmd = RunCmd /\ ZeroExit(results[m])

\* C6: in a download-and-run run, once the archive check or the manifest
\* check was rejected, no extract, install or setup command is issued.
C6_NoContinueAfterFailedCheck ==
  Dar => \A i \in Settled :
           (results[i].rejected /\ issued[i].cmd \in {TestArchive, TestPackageJson})
             => \A j \in DOMAIN issued :
                  j > i => issued[j].cmd \notin {generateExtractCommand, InstallCmd, RunCmd}

\* C7: on every streaming endpoint at most one terminal event (success,
\* error, done) is ever on the stream and it is the last record; a finished
\* run that opened the stream has exactly one; the stream is closed exactly
\* when it has been written; nothing is written after res.end().
StreamOK(evs, cl) ==
  /\ Cardinality(TerminalIdx(evs)) <= 1
  /\ (TerminalIdx(evs) # {} => TerminalIdx(evs) = {Len(evs)})
  /\ (cl <=> TerminalIdx(evs) # {})
C7_OneTerminalEventLast ==
  [][ /\ StreamOK(events', closed')
      /\ ((pc' = "done" /\ httpStatus' = 200) => Cardinality(TerminalIdx(events')) = 1)
      /\ ((closed /\ pc' # "idle") => (events' = events /\ closed')) ]_vars
C7_Witness ==
  /\ endpoint = "execute-stream" /\ closed
  /\ Len(events) >= 3 /\ Last(events) = DoneEv

\* C10: a download-and-run request whose initial connect exhausted its
\* retries has emitted exactly one error progress event.
C10_ConnectFailureEmitsError ==
  (Dar /\ pc = "done" /\ httpStatus = 500 /\ attempts >= ConnectRetries)
    => Cardinality(TypeIdx(events, "error")) = 1


\* C8: retry(fn, N) with N >= 1 whose operation failed on every attempt
\* raises only after exactly N invocations of the operation and N-1
\* invocations of the recovery hook, and what it raises is the operation's
\* last failure.
C8_RetryBound ==
  (call.fn = "op" /\ call.retries >= 1 /\ outcome.kind = "raised")
    => /\ opCalls = call.retries
       /\ hookCalls = call.retries - 1
       /\ outcome.error = "op"

\* C9: when every transport connect fails, connectToRaspberryPi makes at
\* most RETRY_LIMIT transport connect attempts.
C9_ConnectAttemptsBounded ==
  (call.fn = "connect" /\ ~anyConnectOk) => connectCalls <= RETRY_LIMIT


StepIdx == TypeIdx(events, "step")
MaxOf(S) == CHOOSE x \in S : \A y \in S : y <= x

\* the step events written before command i was issued
StepBefore(i) == {b \in StepIdx : b <= issued[i].at}

\* C19: in a download-and-run run the ordinals of the step events never
\* decrease, and an ordinal is not written a second time once the stage it
\* announced is over, i.e. once a command issued under its first step event
\* has settled.
C19_StepOrdinalsMonotone ==
  Dar => \A a, b \in StepIdx :
           a < b => /\ events[a].step <= events[b].step
                    /\ events[a].step = events[b].step
                         => \A i \in Settled : ~(a <= issued[i].at /\ issued[i].at < b)

\* C20: in a download-and-run run every command is issued after a step
\* event, and commands of different stages (create-directory, detect tool,
\* download, verify archive, extract, install-dependencies, setup script)
\* are announced by different step events naming different ordinals.
C20_StepBeforeCommand ==
  Dar => /\ \A i \in DOMAIN issued : StepBefore(i) # {}
         /\ \A i, j \in DOMAIN issued :
              StageOf(issued[i].cmd) # StageOf(issued[j].cmd)
                => /\ MaxOf(StepBefore(i)) # MaxOf(StepBefore(j))
                   /\ events[MaxOf(StepBefore(i))].step
                        # events[MaxOf(StepBefore(j))].step


\* C16: when disconnectAll has returned, the connections map is empty, no
\* connection it held is still connected, and the handle was disposed
\* exactly when the map held an entry that was still connected.
C16_DisconnectAllClears ==
  (svcOp.op = "disconnectAll" /\ svcOp.pc = "done")
    => /\ svcStored = {}
       /\ (svcOp.pre.stored # {} => ~svcConnected)
       /\ svcOp.disposed = (IF svcOp.pre.connected /\ svcOp.pre.stored # {}
                            THEN 1 ELSE 0)
       /\ ~svcOp.threw
C16_Witness ==
  /\ svcOp.op = "disconnectAll" /\ svcOp.pc = "done"
  /\ Cardinality(svcOp.pre.stored) >= 2 /\ svcOp.pre.connected
  /\ svcOp.disposed = 1

\* C17: disconnect() on a session that is not connected returns without an
\* error and without calling dispose; on a connected session it disposes
\* once and leaves it not connected, so a second call disposes nothing.
C17_DisconnectIdempotent ==
  (svcOp.op = "disconnect" /\ svcOp.pc = "done")
    => /\ ~svcOp.threw
       /\ svcOp.disposed = (IF svcOp.pre.connected THEN 1 ELSE 0)
       /\ ~svcConnected
C17_Witness ==
  /\ svcOp.op = "disconnect" /\ svcOp.pc = "done"
  /\ ~svcOp.pre.connected /\ svcOp.pre.stored # {}
  /\ svcOp.disposed = 0


\* C18: execCommandWithRetries treats a command result as a failure exactly
\* when its exit code is not 0, whatever it wrote to standard error.
C18_ExitCodeDecides ==
  (lastExec.seen /\ ~lastExec.rejected)
    => (lastExec.threw <=> lastExec.code # 0)


\* requests of the concurrent server that are in flight
Active(p) == procs[p].pc \notin {"idle", "done"}
\* the step in which slot p takes a connect / execute request
Arrives(p) ==
  /\ Accepts(p) /\ served' = served + 1
  /\ procs'[p].kind \in {"connect", "execute"}
\* the step in which slot p takes a disconnect request
DisconnectArrives(p) ==
  /\ Accepts(p) /\ served' = served + 1
  /\ procs'[p].kind = "disconnect"

\* C11: two requests in flight for the same key never hold two distinct
\* sessions that are both authenticated, and a present key's entry is the
\* object every request for it works on.
C11_OneSessionPerKey ==
  \A p, q \in Procs :
    (Active(p) /\ Active(q) /\ procs[p].key = procs[q].key
       /\ procs[p].kind # "disconnect" /\ procs[q].kind # "disconnect"
       /\ objConnected[procs[p].svc] /\ objConnected[procs[q].svc])
      => procs[p].svc = procs[q].svc

\* C12: a request for a key whose session is healthy obtains the registered
\* session object and starts no transport connect.
C12_HealthyReuse ==
  [][\A p \in Procs :
       /\ (Arrives(p) /\ Found(procs'[p].key) = "healthy")
            => /\ procs'[p].svc = registry[procs'[p].key]
               /\ procs'[p].pc # "connecting" /\ procs'[p].transport = 0
               /\ registry' = registry
               /\ nextObj' = nextObj
       /\ (procs'[p].found = "healthy" /\ procs'[p].kind # "disconnect")
            => procs'[p].transport = 0]_vars
C12_Witness ==
  \E p \in Procs :
    /\ procs[p].found = "healthy" /\ procs[p].kind = "execute"
    /\ procs[p].pc = "exec" /\ procs[p].attempts = 0 /\ procs[p].transport = 0
    /\ procs[p].svc = registry[procs[p].key]

\* a request whose connect() has a this.ssh.connect call pending
Authenticating(p) ==
  procs[p].pc = "connecting" /\ procs[p].transport = procs[p].attempts + 1

\* C13: no two requests for the same key have a transport connect in flight
\* at the same time.
C13_NoConcurrentAuth ==
  \A p, q \in Procs :
    (p # q /\ Authenticating(p) /\ Authenticating(q)) => procs[p].key # procs[q].key

\* C14: a request for a key whose session exists but is not healthy
\* reconnects that same object: the registry entry is unchanged, nothing is
\* allocated, and a successful connect leaves that object connected.
C14_ReconnectInPlace ==
  [][\A p \in Procs :
       /\ (Arrives(p) /\ Found(procs'[p].key) = "unhealthy")
            => /\ registry' = registry
               /\ nextObj' = nextObj
               /\ procs'[p].svc = registry[procs'[p].key]
               /\ procs'[p].pc = "connecting"
       /\ (procs[p].pc = "connecting" /\ procs'[p] # procs[p])
            => /\ registry' = registry
               /\ nextObj' = nextObj
               /\ procs'[p].svc = procs[p].svc
               /\ (procs'[p].pc # "connecting" /\ procs'[p].status # 500)
                     => objConnected'[procs[p].svc]]_vars
C14_Witness ==
  \E p \in Procs :
    /\ procs[p].found = "unhealthy" /\ procs[p].kind \in {"connect", "execute"}
    /\ procs[p].pc \in {"exec", "done"} /\ procs[p].status # 500
    /\ procs[p].attempts >= 1 /\ procs[p].transport = procs[p].attempts + 1
    /\ objStored[procs[p].svc] /\ objConnected[procs[p].svc]
    /\ registry[procs[p].key] = procs[p].svc
    /\ nextObj = 2

\* C15: a disconnect request for a present key tears the session down and
\* removes the key's entry, leaving the other entries alone; for an absent
\* key it changes nothing, tears nothing down and still answers 200.
C15_DisconnectRemoves ==
  [][\A p \in Procs :
       /\ (DisconnectArrives(p) /\ registry[procs'[p].key] # NoObj)
            => /\ ~objConnected'[registry[procs'[p].key]]
               /\ procs'[p].pc = "disposing"
       /\ (procs[p].pc = "disposing" /\ procs'[p] # procs[p])
            => /\ registry'[procs[p].key] = NoObj
               /\ \A k \in Keys \ {procs[p].key} : registry'[k] = registry[k]
               /\ procs'[p].status = 200
       /\ (DisconnectArrives(p) /\ registry[procs'[p].key] = NoObj)
            => /\ UNCHANGED <<registry, nextObj, objConnected, objStored>>
               /\ procs'[p].pc = "done" /\ procs'[p].status = 200]_vars
C15_Witness ==
  \E p, q \in Procs :
    /\ procs[p].kind = "disconnect" /\ procs[p].found = "healthy"
    /\ procs[p].pc = "done" /\ procs[p].status = 200
    /\ registry[procs[p].key] = NoObj /\ ~objConnected[procs[p].svc]
    /\ procs[q].kind = "disconnect" /\ procs[q].found = "absent"
    /\ procs[q].pc = "done" /\ procs[q].status = 200

\* a probe succeeded: it exited 0 and printed something besides whitespace
ProbeSucceeded(r) == ~r.rejected /\ r.code = 0 /\ \E i \in DOMAIN r.stdout : r.stdout[i] \notin Whitespace
CmdIdx(cmd) == {i \in DOMAIN issued : issued[i].cmd = cmd}

\* C21: detectDownloadTool probes curl first and wget second.  When the curl
\* probe succeeded the curl download follows and wget is never probed; when
\* it did not, wget is probed next, and the wget download follows only a
\* successful wget probe; the "neither tool" error follows only two probes
\* that did not succeed.
C21_ProbeOrder ==
  /\ \A i \in CmdIdx(WhichCurl) \cap Settled :
       IF ProbeSucceeded(results[i])
       THEN /\ CmdIdx(WhichWget) = {}
            /\ Len(issued) > i /\ issued[i + 1].cmd = generateCurlCommand
       ELSE /\ Len(issued) > i /\ issued[i + 1].cmd = WhichWget
            /\ (i + 1) \in Settled =>
                 IF ProbeSucceeded(results[i + 1])
                 THEN Len(issued) > i + 1 /\ issued[i + 2].cmd = generateWgetCommand
                 ELSE /\ Len(issued) = i + 1
                      /\ pc = "done" /\ Last(events) = ErrorEv(NoToolMsg)
  /\ \A j \in CmdIdx(WhichWget) : j > 1 /\ issued[j - 1].cmd = WhichCurl
  /\ \A j \in CmdIdx(generateWgetCommand) :
       /\ j > 2
       /\ issued[j - 1].cmd = WhichWget /\ ProbeSucceeded(results[j - 1])
       /\ issued[j - 2].cmd = WhichCurl /\ ~ProbeSucceeded(results[j - 2])
  /\ \A j \in CmdIdx(generateCurlCommand) :
       j > 1 /\ issued[j - 1].cmd = WhichCurl /\ ProbeSucceeded(results[j - 1])
  /\ (events # <<>> /\ Last(events) = ErrorEv(NoToolMsg)) =>
       /\ Len(results) = Len(issued) /\ Len(issued) > 1
       /\ issued[Len(issued)].cmd = WhichWget
       /\ ~ProbeSucceeded(results[Len(issued)])
       /\ ~ProbeSucceeded(results[Len(issued) - 1])
C21_Witness ==
  /\ CmdIdx(generateWgetCommand) # {}
  /\ Len(results) = Len(issued)

\* a finished download-and-run run on a host that answered every command and
\* has neither curl nor wget
NoToolRun ==
  /\ Dar /\ pc = "done" /\ httpStatus = 200
  /\ Len(results) >= 3 /\ \A i \in 1..3 : ~results[i].rejected
  /\ ~ProbeSucceeded(results[2]) /\ ~ProbeSucceeded(results[3])
StepCheckingTools == StepEv(2, "Checking for download tools...")

\* C22 as stated: on a reachable host with neither tool the event sequence
\* is exactly [step 2 "Checking for download tools...", error "Neither ..."].
C22_NoToolEventsAsStated ==
  NoToolRun => events = <<StepCheckingTools, ErrorEv(NoToolMsg)>>

\* C22: on a reachable host with neither tool the event sequence is
\* [step 1 "Creating directory...", step 2 "Checking for download tools...",
\* error "Neither curl nor wget ..."], the stream is closed, and only mkdir
\* and the two probes were issued.
C22_NoToolEvents ==
  NoToolRun =>
    /\ events = <<StepEv(1, "Creating directory..."), StepCheckingTools,
                  ErrorEv(NoToolMsg)>>
    /\ closed
    /\ [i \in 1..Len(issued) |-> issued[i].cmd]
         = <<generateMkdirCommand, WhichCurl, WhichWget>>
C22_Witness == NoToolRun /\ closed /\ results[1].code = 0

\* a finished download-and-run run in which every command the handler issued
\* succeeded: exit code 0, and for a tool probe a path printed
AllSucceededRun ==
  /\ Dar /\ pc = "done" /\ httpStatus = 200
  /\ Len(results) = Len(issued)
  /\ \A i \in DOMAIN results :
       /\ ZeroExit(results[i])
       /\ issued[i].cmd \in {WhichCurl, WhichWget} => ProbeSucceeded(results[i])

\* C23: a download-and-run run in which every command succeeds ends with
\* success "Setup completed successfully!" and has no error event.
C23_AllSucceedEndsInSuccess ==
  AllSucceededRun =>
    /\ events # <<>>
    /\ Last(events) = SuccessEv("Setup completed successfully!")
    /\ TypeIdx(events, "error") = {}
    /\ closed
C23_Witness ==
  /\ AllSucceededRun
  /\ CmdIdx(InstallCmd) # {} /\ CmdIdx(RunCmd) # {}
  /\ \E i \in DOMAIN results : results[i].stderr # ""

\* the body is missing ip, username or password
MissingCredential(b) == b.ip = 0 \/ b.username = "" \/ b.password = ""

\* C24: a request whose body lacks ip, username or password is answered with
\* HTTP 400 at once: the registry and the sessions are unchanged, no connect
\* is started, no command is issued and no event is written.
C24_ValidationFirst ==
  [][(pc = "idle" /\ pc' # "idle" /\ MissingCredential(reqBody'))
       => /\ httpStatus' = 400
          /\ pc' = "done"
          /\ UNCHANGED <<activeConnections, sshConnected, connections>>
          /\ attempts' = 0
          /\ issued' = <<>> /\ results' = results
          /\ events' = <<>> /\ ~closed']_vars
C24_Witness ==
  /\ endpoint = "download-and-run" /\ pc = "done" /\ httpStatus = 400
  /\ reqBody.ip # 0 /\ reqBody.username # "" /\ reqBody.password = ""
  /\ activeConnections = {} /\ events = <<>> /\ issued = <<>>

\* C26: the commands of a download-and-run run are strictly sequential: at
\* most one is in flight, a command is issued only in a step that leaves
\* every earlier command settled, and results arrive one at a time for the
\* oldest unsettled command.
C26_StagesSequential ==
  [][Dar' =>
       /\ Len(issued') - Len(results') \in {0, 1}
       /\ Len(issued') > Len(issued) =>
            /\ Len(issued') = Len(issued) + 1
            /\ Len(results') = Len(issued)
       /\ Len(results') > Len(results) =>
            /\ Len(results') = Len(results) + 1
            /\ Len(issued) = Len(results) + 1
            /\ SubSeq(results', 1, Len(results)) = results]_vars
C26_Witness ==
  /\ Dar /\ pc = "setup" /\ Len(issued) = Len(results) + 1
  /\ CmdIdx(InstallCmd) # {}

\* C29: a download-and-run run issues each of its commands (mkdir, each tool
\* probe, download, archive check, extract, manifest check, install, setup
\* script) at most once.
C29_NoStageRetry ==
  Dar => \A i, j \in DOMAIN issued : issued[i].cmd = issued[j].cmd => i = j
C29_Witness ==
  /\ Dar /\ pc = "done" /\ Len(issued) >= 3 /\ Len(results) = Len(issued)
  /\ events # <<>> /\ Last(events).type = "error"
  /\ results[Len(results)].rejected

\* a connect call that reached the transport and saw it fail every time
AllAttemptsFailed ==
  /\ svcOp.op = "connect" /\ svcOp.retries >= 1
  /\ ~(svcOp.key \in svcOp.pre.stored /\ svcOp.pre.connected)
  /\ svcOp.attempts = svcOp.transport

\* C30: connect(ip, username, password, retries) with retries >= 1 never
\* calls the transport more than `retries` times, and when every attempt
\* failed it has called it exactly `retries` times and throws; it never
\* returns normally from such a call.
C30_ConnectFailureThrows ==
  /\ (svcOp.op = "connect" /\ svcOp.retries >= 1) => svcOp.transport <= svcOp.retries
  /\ (AllAttemptsFailed /\ svcOp.pc = "done")
       => (svcOp.transport = svcOp.retries /\ svcOp.threw)
  /\ (svcOp.op = "connect" /\ svcOp.threw)
       => (svcOp.pc = "done" /\ svcOp.attempts = svcOp.retries)
C30_Witness ==
  /\ AllAttemptsFailed /\ svcOp.pc = "done" /\ svcOp.threw
  /\ svcOp.transport = ConnectRetries

\* what position i of the trace of the SSH script's retry must hold: cycles of
\* attempt k, log k, hook, hook returned, delay
CycleOf(i) == ((i - 1) \div 5) + 1
SlotOf(i) == (i - 1) % 5
IsLast(i) == i = Len(trace)

\* C28: in retry, failed attempt k below the limit is followed, in this
\* order, by the log carrying k, the recovery hook, the delay, and only then
\* attempt k+1; logged numbers run 1, 2, ... and no attempt starts before the
\* hook of the previous failure has returned.
C28_RetryCycleOrder ==
  call.fn \in {"op", "connect", "exec-ssh"} =>
    \A i \in DOMAIN trace :
      CASE SlotOf(i) = 0 -> \/ /\ trace[i] = Tr("attempt", CycleOf(i))
                               /\ CycleOf(i) <= call.retries
                            \/ /\ trace[i] = Tr("return", 0) /\ IsLast(i)
                               /\ call.retries = 0
        [] SlotOf(i) = 1 -> \/ trace[i] = Tr("log", CycleOf(i))
                            \/ trace[i] = Tr("return", 0) /\ IsLast(i)
        [] SlotOf(i) = 2 -> \/ trace[i] = Tr("hook", 0) /\ CycleOf(i) < call.retries
                            \/ /\ trace[i] = Tr("raise", 0) /\ IsLast(i)
                               /\ CycleOf(i) = call.retries
        [] SlotOf(i) = 3 -> \/ trace[i] = Tr("hookdone", 0)
                            \/ trace[i] = Tr("raise", 0) /\ IsLast(i)
        [] SlotOf(i) = 4 -> trace[i] = Tr("delay", 0)
C28_Witness ==
  /\ call.fn = "op" /\ Len(trace) >= 11
  /\ trace[11] = Tr("attempt", 3)
  /\ hookCalls = 2 /\ anyConnectOk

\* C25: a standalone script exits with a non-zero status when its run ended
\* in an error or on a missing prerequisite, and with status 0 only when the
\* provisioning completed.
C25_ExitStatusReflectsOutcome ==
  main.exit # -1 => (main.exit = 0 <=> main.end = "completed")

\* the terminal records of a download-and-run stream
IsTerminal(e) == e.ev.type \in {"success", "error"}
StreamOf(r) == runs[r].events

\* C27: with several download-and-run runs in flight, on one key or on
\* different keys, each run's stream holds only records that run wrote, in
\* the order its own commands settled and with step ordinals that never go
\* back, and a finished stream has exactly one terminal record, its last;
\* nothing is written to a stream after that.
C27_StreamsStayValid ==
  \A r \in Runs :
    /\ \A i \in DOMAIN StreamOf(r) :
         /\ StreamOf(r)[i].run = r
         /\ StreamOf(r)[i].seq <= runs[r].settled
         /\ i < Len(StreamOf(r)) =>
              /\ StreamOf(r)[i].seq <= StreamOf(r)[i + 1].seq
              /\ ~IsTerminal(StreamOf(r)[i])
         /\ \A j \in DOMAIN StreamOf(r) :
              (i < j /\ StreamOf(r)[i].ev.type = "step" /\ StreamOf(r)[j].ev.type = "step")
                => StreamOf(r)[i].ev.step <= StreamOf(r)[j].ev.step
    /\ (runs[r].pc = "done" /\ runs[r].status = 200)
         => (StreamOf(r) # <<>> /\ IsTerminal(StreamOf(r)[Len(StreamOf(r))]))
    /\ (runs[r].status # 200) => StreamOf(r) = <<>>
C27_Witness ==
  /\ runs[1].pc = "done" /\ runs[2].pc = "done"
  /\ runs[1].key = runs[2].key
  /\ StreamOf(1) # <<>> /\ StreamOf(2) # <<>>
  /\ StreamOf(1)[Len(StreamOf(1))].ev.type = "success"
  /\ StreamOf(2)[Len(StreamOf(2))].ev.type = "error"
  /\ runs[2].settled >= 3

\* C31: a retry call with a limit of 0 or less does not return normally
\* unless the operation was invoked.
C31_NoSuccessWithoutRunning ==
  (call.fn = "op" /\ call.retries <= 0 /\ outcome.kind = "returned") => opCalls > 0

\* C32: SSHService.connect adds its key to the connections map only after a
\* transport connect for that key has succeeded, and a connect call that
\* ends in failure leaves the map exactly as it was before the call.
C32_MapChangedOnlyOnSuccess ==
  svcOp.op = "connect" =>
    /\ svcOp.threw => svcStored = svcOp.pre.stored
    /\ svcStored # svcOp.pre.stored =>
         /\ svcOp.pc = "done" /\ ~svcOp.threw
         /\ svcStored = svcOp.pre.stored \cup {svcOp.key}
         /\ svcOp.transport = svcOp.attempts + 1
C32_Witness ==
  /\ svcOp.op = "connect" /\ svcOp.pc = "done" /\ svcOp.threw
  /\ svcOp.transport >= 2
  /\ svcOp.pre.stored # {} /\ svcOp.key \notin svcOp.pre.stored
  /\ svcStored = svcOp.pre.stored

\* C33: a rejected tool probe is handled like a probe that reports the tool
\* absent.  A rejected `which curl` is followed by `which wget`; a rejected
\* `which wget` after a curl probe that found nothing ends the run, and the
\* only error event of the run is then the missing-tool message, never the
\* session's own error.
C33_RejectedProbeIsAbsent ==
  /\ \A i \in CmdIdx(WhichCurl) \cap Settled :
       results[i].rejected => (Len(issued) > i /\ issued[i + 1].cmd = WhichWget)
  /\ \A i \in CmdIdx(WhichWget) \cap Settled :
       results[i].rejected
         => /\ Len(issued) = i
            /\ pc = "done"
            /\ Last(events) = ErrorEv(NoToolMsg)
            /\ \A n \in DOMAIN events :
                 events[n].type = "error" => events[n] = ErrorEv(NoToolMsg)
C33_Witness ==
  /\ Dar /\ pc = "done"
  /\ \E i \in CmdIdx(WhichCurl) :
       /\ i + 1 \in Settled /\ issued[i + 1].cmd = WhichWget
       /\ results[i].rejected /\ results[i + 1].rejected
  /\ events # <<>> /\ Last(events) = ErrorEv(NoToolMsg)

\* C34: in the SSH script every path out of main disposes the session
\* exactly once: the process never ends undisposed, the dispose happens only
\* once the try block has completed, returned early or thrown into the catch
\* block, nothing of main runs after it, and once a statement has failed
\* terminally (or main has returned) no further statement is executed.
C34_Step ==
  main.script = "ssh" =>
    /\ main'.exit # -1 => main'.disposed
    /\ (~main.disposed /\ main'.disposed)
         => /\ main.end \in {"completed", "prerequisite missing", "error"}
            /\ main.end = "error" => main.caught
            /\ main'.step = main.step /\ main'.ran = main.ran
    /\ main.disposed
         => main' \in {main, [main EXCEPT !.exit = 0]}
    /\ main.end # "running"
         => main'.step = main.step /\ main'.ran = main.ran /\ main'.end = main.end
C34_DisposedOnceOnEveryPath == [][C34_Step]_vars
C34_Witness ==
  /\ main.script = "ssh" /\ main.end = "error" /\ main.caught
  /\ main.step < Len(SshMain)
  /\ main.disposed /\ main.exit = 0

====
